---- MODULE Spec2Model ----
(***************************************************************************)
(* Model of the bank-switched cartridge CartridgeSB (hotspots at           *)
(* 0x0800-0x0FFF, 4K banks) and of the fixed cartridge Cartridge2K,        *)
(* together with the part of the System page table they publish into.     *)
(* Spec runs a CartridgeSB, Spec2K a Cartridge2K, SpecAny either of them.  *)
(*                                                                         *)
(* Representation: myImage is kept as the constructor's copy of the ROM    *)
(* image (the operator image) overlaid by the bytes patch() has written;   *)
(* pointers into myImage (directPeekBase, codeAccessBase) are kept as the  *)
(* index they point at, NullPtr standing for a null pointer.               *)
(***************************************************************************)
EXTENDS Integers, Sequences, FiniteSets, TLC

\* ---------------------------------------------------------------- bounds
MaxBanks   == 2      \* images of 1..MaxBanks banks of 4096 bytes
MaxPatches == 1      \* at most this many distinct bytes get patched
MaxSelect  == 4      \* bank selection is looked at for 1..MaxSelect banks

\* ------------------------------------------------------- System constants
PAGE_SHIFT == 6
PageCount  == 128    \* 0x2000 >> PAGE_SHIFT
NullPtr    == -1

\* addresses handed to peek/poke: below the hotspots, the eight hotspot
\* sub-pages, the cartridge window, and 16-bit values above the 13-bit bus
Addrs ==
  { 2047,                                      \* 0x07FF
    2048, 2049, 2050, 3845,                    \* 0x0800 .. 0x0802 0x0F05
    4096, 8191,                                \* 0x1000 0x1FFF
    10241 }                                    \* 0x2801
PatchAddrs == { 4096, 61440 }                  \* 0x1000 0xF000
PatchVals  == { 171 }                          \* 0xAB
PokeVals   == { 171 }
DevBytes   == { 15, 90 }   \* bytes the overlapping device may answer with
ShortVals  == 0 .. MaxBanks                    \* getShort() results
Sizes      == { n * 4096 : n \in 1 .. MaxBanks }

\* ------------------------------------------------------------- bit helpers
\* a & b bit by bit, tabulated for four-bit operands
RECURSIVE BitAnd1(_, _)
BitAnd1(a, b) ==
  IF a = 0 \/ b = 0 THEN 0
  ELSE (a % 2) * (b % 2) + 2 * BitAnd1(a \div 2, b \div 2)

NibbleAnd == [x \in 0 .. 15 |-> [y \in 0 .. 15 |-> BitAnd1(x, y)]]

\* a & b of two unsigned values, four bits at a time
RECURSIVE BitAnd(_, _)
BitAnd(a, b) ==
  IF a = 0 \/ b = 0 THEN 0
  ELSE NibbleAnd[a % 16][b % 16] + 16 * BitAnd(a \div 16, b \div 16)

Shr(a, n) == a \div (2 ^ n)
Shl(a, n) == a * (2 ^ n)

\* the ROM image handed to the constructor: byte i of the file
image(i) == 1 + (((i \div 4096) * 16 + ((i % 4096) % 11)) % 255)

VARIABLES
  variant,              \* the class of the cartridge: "SB" or "2K"
  myMask,               \* Cartridge2K::myMask (0: the class has none)
  imageSize,            \* number of bytes the constructor copied from image
  mySize,               \* CartridgeSB::mySize, Cartridge2K::mySize
  myImage,              \* patched bytes of myImage: index -> value
  myCurrentBank,        \* CartridgeSB::myCurrentBank
  myStartBank,          \* Cartridge::myStartBank
  myBankChanged,        \* Cartridge::myBankChanged
  myBankLocked,         \* Cartridge::myBankLocked
  mySystem,             \* TRUE once install() has stored the System
  myHotSpotPageAccess,  \* the eight descriptors captured by install()
  pageAccess,           \* System's page table: page -> descriptor
  fault,                \* the call ran into undefined behaviour and died
  pristine,             \* no hotspot access, bank(), reset(), load() yet
  last,                 \* the last call: name, argument and results
  myCurrentFormat,      \* Console::myCurrentFormat
  myDisplayFormat,      \* Console::myDisplayFormat
  myConsoleTiming,      \* Console::myConsoleTiming
  loadedFrom,           \* per component of the Console: the stream its
                        \* state was last loaded from (0: none)
  lastConsole           \* the last call of the Console and the ones before

\* what the constructor fixes for the life of the cartridge
built == << variant, myMask, imageSize, mySize >>

\* the Console around the cartridge
consoleVars == << myCurrentFormat, myDisplayFormat, myConsoleTiming,
                 loadedFrom, lastConsole >>

\* what no operation of a cartridge writes
fixed == << consoleVars, built >>

vars == << variant, myMask, imageSize, mySize, myImage, myCurrentBank,
           myStartBank, myBankChanged,
           myBankLocked, mySystem, myHotSpotPageAccess, pageAccess,
           fault, pristine, last, myCurrentFormat, myDisplayFormat,
           myConsoleTiming, loadedFrom, lastConsole >>

\* ----------------------------------------------------------------- System
Pages == 0 .. PageCount - 1

\* System::PageAccess, kept as the tuple of its fields
PageAccess(dev, peekBase, codeBase, type) == << dev, type, peekBase, codeBase >>
device(access)         == access[1]
accessType(access)     == access[2]
directPeekBase(access) == access[3]
codeAccessBase(access) == access[4]

\* System::PageAccessType, and the devices on the bus
PA_NONE      == "N"
PA_READ      == "R"
PA_READWRITE == "RW"
TIA          == "TIA"
M6532        == "RIOT"
NullDevice   == "null"

\* the table the cartridge finds: TIA and M6532 share everything below
\* 0x1000, the cartridge window is still unmapped
InitialPageAccess ==
  [p \in Pages |->
     IF Shl(p, PAGE_SHIFT) < 4096
     THEN PageAccess(IF BitAnd(Shl(p, PAGE_SHIFT), 128) = 0
                     THEN TIA ELSE M6532, NullPtr, NullPtr, PA_READWRITE)
     ELSE PageAccess(NullDevice, NullPtr, NullPtr, PA_READ)]

getPageAccess(pt, page) == pt[page]

\* ------------------------------------------------------------ CartridgeSB
name == "CartridgeSB"     \* the identity tag, CartridgeSB::name()
this == "SB"              \* the cartridge as a device of the bus

bankCountOf(size) == Shr(size, 12)
bankCount == bankCountOf(mySize)
getBank == myCurrentBank

\* byte i of myImage (i inside the allocation)
ImageAt(i) == IF i \in DOMAIN myImage THEN myImage[i] ELSE image(i)

\* variant: the start bank taken as bankCount() itself
StartBankOf_m(size) == bankCountOf(size) % 65536

\* constructor: myStartBank = bankCount() - 1, a uInt16
StartBankOf(size) == (bankCountOf(size) - 1) % 65536

\* variant: the mask keeps address lines 11 and 12 only
MaskAddress_m(address) == BitAnd(address, 6144)

\* peek/poke: address &= (0x17FF + (mySize >> 12))
MaskAddress(address) == BitAnd(address, (6143 + Shr(mySize, 12)) % 65536)

\* variant: the hotspot test looks at address line 11 only
IsSwitch_m(address) == BitAnd(address, 2048) = 2048

\* peek/poke: (address & 0x1800) == 0x0800
IsSwitch(address) == BitAnd(address, 6144) = 2048

\* variant: the bank taken as address & bankCount()
HotSpotBank_m(address) == BitAnd(address, bankCount)

\* peek/poke: bank(address & myStartBank)
HotSpotBank(address) == BitAnd(address, myStartBank)

\* peek/poke: !(address & 0x1000)
IsForward(address) == BitAnd(address, 4096) = 0

\* peek/poke: int hotspot = ((address & 0x0F00) >> 8) - 8
HotSpotIndex(address) == Shr(BitAnd(address, 3840), 8) - 8

\* bank(): the pages the loop visits, address = 0x1000; address < 0x2000
WindowPages ==
  { Shr(address, PAGE_SHIFT) :
      address \in { 4096 + Shl(k, PAGE_SHIFT) :
                      k \in 0 .. Shr(8192 - 4096 - 1, PAGE_SHIFT) } }

\* bank(): address & 0x0FFF of each page's first address
WindowOffset == [p \in Pages |-> BitAnd(Shl(p, PAGE_SHIFT), 4095)]

\* bank(): the descriptors of 0x1000-0x1FFF for the given bank
BankPages(pt, b) ==
  [p \in Pages |->
     IF p \in WindowPages
     THEN PageAccess(this, b * 4096 + WindowOffset[p],
                     b * 4096 + WindowOffset[p], PA_READ)
     ELSE pt[p]]

\* variant: bank() republishes the old bank and leaves the flag alone
bank_m(b, cur, chg, pt) ==
  IF myBankLocked
  THEN [ret |-> FALSE, myCurrentBank |-> cur, myBankChanged |-> chg,
        pageAccess |-> pt]
  ELSE [ret |-> TRUE, myCurrentBank |-> b, myBankChanged |-> chg,
        pageAccess |-> BankPages(pt, cur)]

\* bank(): result, and the state it leaves, from the given state
bank(b, cur, chg, pt) ==
  IF myBankLocked
  THEN [ret |-> FALSE, myCurrentBank |-> cur, myBankChanged |-> chg,
        pageAccess |-> pt]
  ELSE [ret |-> TRUE, myCurrentBank |-> b, myBankChanged |-> TRUE,
        pageAccess |-> BankPages(pt, b)]

\* install(): the hotspot pages handed to the cartridge
\* install(): the pages the loop visits, i = 0x0800; i < 0x0FFF
HotSpotPageSet ==
  { Shr(i, PAGE_SHIFT) :
      i \in { 2048 + Shl(k, PAGE_SHIFT) :
                k \in 0 .. Shr(4095 - 2048 - 1, PAGE_SHIFT) } }

HotSpotPages(pt) ==
  [p \in Pages |->
     IF p \in HotSpotPageSet
     THEN PageAccess(this, NullPtr, NullPtr, PA_READ)
     ELSE pt[p]]

\* variant: the descriptors are read after the hotspot pages were taken
CaptureHotSpots_m(pt) ==
  [k \in 0 .. 7 |->
     getPageAccess(HotSpotPages(pt), Shr(2048 + 256 * k, PAGE_SHIFT))]

\* install(): the descriptors captured for 0x0800, 0x0900, ... 0x0F00
CaptureHotSpots(pt) ==
  [k \in 0 .. 7 |-> getPageAccess(pt, Shr(2048 + 256 * k, PAGE_SHIFT))]

\* the record of a call: its name, argument, boolean result, byte (returned
\* or written), the forwarding it did (descriptor index, device, the
\* arguments handed on, the device's answer, the bank active at that
\* moment), the Serializer contents, and for a restore the bank and the
\* patched bytes of the cartridge that was saved
NoCall == [op |-> "none", arg |-> -1, ok |-> FALSE, val |-> -1,
           hotspot |-> -100, dev |-> "none", fwd |-> << >>, devval |-> -1,
           fwdbank |-> -1, stream |-> << >>, before |-> << >>]
Call(op, arg, ok, val, hotspot, dev) ==
  [op |-> op, arg |-> arg, ok |-> ok, val |-> val,
   hotspot |-> hotspot, dev |-> dev, fwd |-> << >>, devval |-> -1,
   fwdbank |-> -1, stream |-> << >>, before |-> << >>]

\* a call that went on to device->peek(address) / device->poke(address, value)
Forwarded(call, args, answer, bankNow) ==
  [call EXCEPT !.fwd = args, !.devval = answer, !.fwdbank = bankNow]

\* the Console members while only the cartridge is looked at
Components == { "system", "left", "right", "switches" }
NoConsoleCall == [op |-> "none", arg |-> 0, ok |-> FALSE, failed |-> "none",
                  from |-> 0, prevDir |-> 0, prevFrom |-> 0,
                  run |-> 0, runFrom |-> 0]
ConsoleIdle ==
  /\ myCurrentFormat = 0
  /\ myDisplayFormat = ""
  /\ myConsoleTiming = "ntsc"
  /\ loadedFrom = [c \in Components |-> 0]
  /\ lastConsole = NoConsoleCall

Init ==
  /\ ConsoleIdle
  /\ variant = "SB"
  /\ mySize \in Sizes
  /\ myMask = 0
  /\ imageSize = mySize
  /\ myImage = [i \in {} |-> 0]
  /\ myCurrentBank = 0
  /\ myStartBank = StartBankOf(mySize)
  /\ myBankChanged = FALSE
  /\ myBankLocked = FALSE
  /\ mySystem = FALSE
  /\ myHotSpotPageAccess =
       [k \in 0 .. 7 |-> PageAccess(NullDevice, NullPtr, NullPtr, PA_NONE)]
  /\ pageAccess = InitialPageAccess
  /\ fault = FALSE
  /\ pristine = TRUE
  /\ last = NoCall

\* install(): System::attach() calls it once, on the unlocked cartridge
SB_install ==
  /\ ~fault /\ ~mySystem
  /\ \E r \in {bank(myStartBank, myCurrentBank, myBankChanged,
                    HotSpotPages(pageAccess))} :
        /\ mySystem' = TRUE
        /\ myHotSpotPageAccess' = CaptureHotSpots(pageAccess)
        /\ myCurrentBank' = r.myCurrentBank
        /\ myBankChanged' = r.myBankChanged
        /\ pageAccess' = r.pageAccess
        /\ last' = Call("install", -1, TRUE, -1, -100, "none")
  /\ UNCHANGED << fixed, myImage, myStartBank, myBankLocked, fault,
                  pristine >>

\* the device a forwarded access lands on: the captured descriptor's, or
\* whatever lies outside the eight-entry array
ForwardDevice(h) ==
  IF h \in 0 .. 7 THEN device(myHotSpotPageAccess[h]) ELSE "wild"

\* peek()/poke() up to the forwarding: masked address, bank switch
Access(address) ==
  LET a == MaskAddress(address)
      r == IF IsSwitch(a)
           THEN bank(HotSpotBank(a), myCurrentBank, myBankChanged, pageAccess)
           ELSE [ret |-> FALSE, myCurrentBank |-> myCurrentBank,
                 myBankChanged |-> myBankChanged, pageAccess |-> pageAccess]
  IN [a |-> a, switch |-> IsSwitch(a), r |-> r,
      forward |-> IsForward(a), hotspot |-> HotSpotIndex(a)]

\* peek(): the byte returned when the access is not forwarded
PeekFallback(a) == 0

\* variant: a forwarded peek answers with the cartridge's own constant
PeekForward_m(answer) == PeekFallback(answer)

\* peek(): return myHotSpotPageAccess[hotspot].device->peek(address)
PeekForward(answer) == answer

\* variant: the access is forwarded before the bank is switched
BankAtForward_m(before, after) == before

\* peek()/poke(): the forwarding statement comes after the switch
BankAtForward(before, after) == after

SB_peek(address) ==
  /\ ~fault /\ mySystem
  /\ \E x \in {Access(address)} : \E dev \in {ForwardDevice(x.hotspot)} :
        /\ myCurrentBank' = x.r.myCurrentBank
        /\ myBankChanged' = x.r.myBankChanged
        /\ pageAccess' = x.r.pageAccess
        /\ pristine' = (pristine /\ ~x.switch)
        /\ IF ~x.forward
           THEN /\ fault' = FALSE
                /\ last' = Call("peek", address, TRUE, PeekFallback(x.a),
                                -100, "none")
           ELSE IF dev = this
           THEN \* the captured device is the cartridge: peek re-enters itself
                /\ fault' = TRUE
                /\ last' = Call("peek", address, FALSE, -1, x.hotspot, dev)
           ELSE IF dev = "wild"
           THEN \* read outside myHotSpotPageAccess: crash or a stray byte
                \/ /\ fault' = TRUE
                   /\ last' = Call("peek", address, FALSE, -1, x.hotspot, dev)
                \/ /\ fault' = FALSE
                   /\ \E b \in DevBytes :
                        last' = Forwarded(Call("peek", address, TRUE,
                                               PeekForward(b), x.hotspot, dev),
                                          << x.a >>, b,
                                          BankAtForward(myCurrentBank,
                                                        x.r.myCurrentBank))
           ELSE /\ fault' = FALSE
                /\ \E b \in DevBytes :
                     last' = Forwarded(Call("peek", address, TRUE,
                                            PeekForward(b), x.hotspot, dev),
                                       << x.a >>, b,
                                       BankAtForward(myCurrentBank,
                                                     x.r.myCurrentBank))
  /\ UNCHANGED << fixed, myImage, myStartBank, myBankLocked, mySystem,
                  myHotSpotPageAccess >>

SB_poke(address, value) ==
  /\ ~fault /\ mySystem
  /\ \E x \in {Access(address)} : \E dev \in {ForwardDevice(x.hotspot)} :
        /\ myCurrentBank' = x.r.myCurrentBank
        /\ myBankChanged' = x.r.myBankChanged
        /\ pageAccess' = x.r.pageAccess
        /\ pristine' = (pristine /\ ~x.switch)
        /\ IF ~x.forward
           THEN /\ fault' = FALSE
                /\ last' = Call("poke", address, FALSE, value, -100, "none")
           ELSE IF dev = this
           THEN /\ fault' = TRUE
                /\ last' = Call("poke", address, FALSE, value, x.hotspot, dev)
           ELSE IF dev = "wild"
           THEN /\ fault' \in BOOLEAN
                /\ last' = Call("poke", address, FALSE, value, x.hotspot, dev)
           ELSE /\ fault' = FALSE
                /\ last' = Forwarded(Call("poke", address, FALSE, value,
                                          x.hotspot, dev),
                                     << x.a, value >>, -1,
                                     BankAtForward(myCurrentBank,
                                                   x.r.myCurrentBank))
  /\ UNCHANGED << fixed, myImage, myStartBank, myBankLocked, mySystem,
                  myHotSpotPageAccess >>

\* variant: reset() switches to bank 0
SB_reset_m ==
  /\ ~fault /\ mySystem
  /\ \E r \in {bank(0, myCurrentBank, myBankChanged, pageAccess)} :
        /\ myCurrentBank' = r.myCurrentBank
        /\ myBankChanged' = r.myBankChanged
        /\ pageAccess' = r.pageAccess
        /\ last' = Call("reset", -1, r.ret, -1, -100, "none")
  /\ pristine' = FALSE
  /\ UNCHANGED << fixed, myImage, myStartBank, myBankLocked, mySystem,
                  myHotSpotPageAccess, fault >>

\* reset(): bank(myStartBank)
SB_reset ==
  /\ ~fault /\ mySystem
  /\ \E r \in {bank(myStartBank, myCurrentBank, myBankChanged, pageAccess)} :
        /\ myCurrentBank' = r.myCurrentBank
        /\ myBankChanged' = r.myBankChanged
        /\ pageAccess' = r.pageAccess
        /\ last' = Call("reset", -1, r.ret, -1, -100, "none")
  /\ pristine' = FALSE
  /\ UNCHANGED << fixed, myImage, myStartBank, myBankLocked, mySystem,
                  myHotSpotPageAccess, fault >>

SB_bank(newBank) ==
  /\ ~fault /\ mySystem
  /\ \E r \in {bank(newBank, myCurrentBank, myBankChanged, pageAccess)} :
        /\ myCurrentBank' = r.myCurrentBank
        /\ myBankChanged' = r.myBankChanged
        /\ pageAccess' = r.pageAccess
        /\ last' = Call("bank", newBank, r.ret, -1, -100, "none")
  /\ pristine' = FALSE
  /\ UNCHANGED << fixed, myImage, myStartBank, myBankLocked, mySystem,
                  myHotSpotPageAccess, fault >>

\* patch(): the index written, (myCurrentBank << 12) + (address & 0x0FFF)
PatchIndex(address) == Shl(myCurrentBank, 12) + BitAnd(address, 4095)

SB_patch(address, value) ==
  /\ ~fault
  /\ LET i == PatchIndex(address)
     IN IF i < mySize
        THEN /\ i \in DOMAIN myImage \/ Cardinality(DOMAIN myImage) < MaxPatches
             /\ myImage' = [j \in DOMAIN myImage \cup {i} |->
                              IF j = i THEN value ELSE myImage[j]]
             /\ fault' = FALSE
        ELSE \* a write beyond the allocation: crash, or a stray byte hit
             /\ myImage' = myImage
             /\ fault' \in BOOLEAN
  /\ myBankChanged' = TRUE
  /\ last' = Call("patch", address, TRUE, value, -100, "none")
  /\ UNCHANGED << fixed, myCurrentBank, myStartBank, myBankLocked, mySystem,
                  myHotSpotPageAccess, pageAccess, pristine >>

\* save(): thrown is the number of put calls that succeed before the
\* Serializer throws (2: none throws)
SB_save(thrown) ==
  /\ ~fault
  /\ last' = [Call("save", -1, thrown = 2, -1, -100, "none")
                EXCEPT !.stream = SubSeq(<< name, myCurrentBank >>, 1, thrown)]
  /\ UNCHANGED << fixed, myImage, myCurrentBank, myStartBank, myBankChanged,
                  myBankLocked, mySystem, myHotSpotPageAccess, pageAccess,
                  fault, pristine >>

\* streams handed to load(): empty, truncated, foreign, and well-formed
LoadStreams ==
  { << >>, << "Cartridge2K" >>, << "Cartridge2K", 1 >>, << name >> }
    \cup { << name, s >> : s \in ShortVals }

\* a load() call reading the Serializer contents in
Loading(call, in) == [call EXCEPT !.stream = in]

\* variant: load() stores bank 0 when the stream ends after the tag
SB_load_m(in) ==
  /\ ~fault /\ mySystem
  /\ IF Len(in) = 0 \/ in[1] # name
     THEN /\ UNCHANGED << myCurrentBank, myBankChanged, pageAccess, pristine >>
          /\ last' = Loading(Call("load", IF Len(in) < 2 THEN -1 ELSE in[2],
                                  FALSE, Len(in), -100, "none"), in)
     ELSE \E b \in {IF Len(in) < 2 THEN 0 ELSE in[2]} :
          \E r \in {bank(b, b, myBankChanged, pageAccess)} :
             /\ myCurrentBank' = r.myCurrentBank
             /\ myBankChanged' = r.myBankChanged
             /\ pageAccess' = r.pageAccess
             /\ pristine' = FALSE
             /\ last' = Loading(Call("load", b, Len(in) = 2, Len(in), -100,
                                     "none"), in)
  /\ UNCHANGED << fixed, myImage, myStartBank, myBankLocked, mySystem,
                  myHotSpotPageAccess, fault >>

\* load(): getString() and getShort() throw at the end of the stream
SB_load(in) ==
  /\ ~fault /\ mySystem
  /\ IF Len(in) = 0 \/ in[1] # name \/ Len(in) < 2
     THEN /\ UNCHANGED << myCurrentBank, myBankChanged, pageAccess, pristine >>
          /\ last' = Loading(Call("load", IF Len(in) < 2 THEN -1 ELSE in[2],
                                  FALSE, Len(in), -100, "none"), in)
     ELSE \E r \in {bank(in[2], in[2], myBankChanged, pageAccess)} :
             /\ myCurrentBank' = r.myCurrentBank
             /\ myBankChanged' = r.myBankChanged
             /\ pageAccess' = r.pageAccess
             /\ pristine' = FALSE
             /\ last' = Loading(Call("load", in[2], TRUE, Len(in), -100,
                                     "none"), in)
  /\ UNCHANGED << fixed, myImage, myStartBank, myBankLocked, mySystem,
                  myHotSpotPageAccess, fault >>

\* the round trip: the stream of the save() just done is loaded into a
\* new CartridgeSB made from the same image and installed into a new
\* System; that cartridge is unlocked, so load()'s bank() goes through.
\* The model goes on with the new cartridge and remembers the old one's
\* bank and patched bytes
SB_restore ==
  /\ ~fault
  /\ last.op = "save" /\ last.ok
  /\ myImage' = [i \in {} |-> 0]
  /\ myBankLocked' = FALSE
  /\ mySystem' = TRUE
  /\ myHotSpotPageAccess' = CaptureHotSpots(InitialPageAccess)
  /\ myCurrentBank' = last.stream[2]
  /\ myBankChanged' = TRUE
  /\ pageAccess' = BankPages(HotSpotPages(InitialPageAccess), last.stream[2])
  /\ fault' = FALSE
  /\ pristine' = FALSE
  /\ last' = [Call("restore", last.stream[2], last.stream[1] = name, -1,
                   -100, "none")
                EXCEPT !.before = << myCurrentBank, myImage >>]
  /\ UNCHANGED << fixed, myStartBank >>

\* Cartridge::lockBank() / unlockBank(), called by the debugger
lockBank ==
  /\ ~fault /\ mySystem
  /\ myBankLocked' = TRUE
  /\ last' = Call("lockBank", -1, TRUE, -1, -100, "none")
  /\ UNCHANGED << fixed, myImage, myCurrentBank, myStartBank, myBankChanged,
                  mySystem, myHotSpotPageAccess, pageAccess, fault,
                  pristine >>

unlockBank ==
  /\ ~fault /\ mySystem
  /\ myBankLocked' = FALSE
  /\ last' = Call("unlockBank", -1, TRUE, -1, -100, "none")
  /\ UNCHANGED << fixed, myImage, myCurrentBank, myStartBank, myBankChanged,
                  mySystem, myHotSpotPageAccess, pageAccess, fault,
                  pristine >>

\* Cartridge::bankChanged(): the consumer reads the flag and clears it
bankChanged ==
  /\ ~fault /\ mySystem
  /\ myBankChanged' = FALSE
  /\ last' = Call("bankChanged", -1, myBankChanged, -1, -100, "none")
  /\ UNCHANGED << fixed, myImage, myCurrentBank, myStartBank, myBankLocked,
                  mySystem, myHotSpotPageAccess, pageAccess, fault,
                  pristine >>

Next ==
  \/ SB_install
  \/ \E address \in Addrs : SB_peek(address)
  \/ \E address \in Addrs, value \in PokeVals : SB_poke(address, value)
  \/ SB_reset
  \/ \E newBank \in 0 .. bankCount - 1 : SB_bank(newBank)
  \/ \E address \in PatchAddrs, value \in PatchVals : SB_patch(address, value)
  \/ \E thrown \in 0 .. 2 : SB_save(thrown)
  \/ \E in \in LoadStreams \cup {last.stream} : SB_load(in)
  \/ SB_restore
  \/ lockBank
  \/ unlockBank
  \/ bankChanged

Spec == Init /\ [][Next]_vars

\* ------------------------------------------------------------ Cartridge2K
name2K == "Cartridge2K"   \* the identity tag, Cartridge2K::name()
this2K == "2K"            \* the cartridge as a device of the bus

\* the size argument of the constructor
ImageSizes2K == { 0, 1, 64, 100, 2048, 4096 }

\* addresses handed to peek/poke/patch of a Cartridge2K
Addrs2K ==
  { 4096, 4097, 4196,                          \* 0x1000 0x1001 0x1064
    6144, 6145, 8191 }                         \* 0x1800 0x1801 0x1FFF
PatchAddrs2K == { 4096, 6145 }                 \* 0x1000 0x1801

\* constructor: if(size > 2048) size = 2048
ClampSize(size) == IF size > 2048 THEN 2048 ELSE size

\* constructor: mySize = 1; while(mySize < size) mySize <<= 1
RECURSIVE GrowSize(_, _)
GrowSize(s, size) == IF s < size THEN GrowSize(Shl(s, 1), size) ELSE s

\* variant: the smallest store is a single byte
SizeOf2K_m(size) == GrowSize(1, ClampSize(size))

\* constructor: if(mySize < 64) mySize = 64
SizeOf2K(size) ==
  IF GrowSize(1, ClampSize(size)) < 64 THEN 64
  ELSE GrowSize(1, ClampSize(size))

\* constructor: myMask = mySize - 1
MaskOf2K(size) == SizeOf2K(size) - 1

\* byte i of a store with the patches img: memset 0x02, memcpy of the
\* image, then the patches
Byte2K(img, i) ==
  IF i \in DOMAIN img THEN img[i]
  ELSE IF i < imageSize THEN image(i) ELSE 2

Image2KAt(i) == Byte2K(myImage, i)

\* variant: the descriptors point at the offset into the 4K window
Pages2K_m(pt) ==
  [p \in Pages |->
     IF p \in WindowPages
     THEN PageAccess(this2K, BitAnd(Shl(p, PAGE_SHIFT), 4095),
                     BitAnd(Shl(p, PAGE_SHIFT), 4095), PA_READ)
     ELSE pt[p]]

\* install(): the descriptors of 0x1000-0x1FFF
Pages2K(pt) ==
  [p \in Pages |->
     IF p \in WindowPages
     THEN PageAccess(this2K, BitAnd(Shl(p, PAGE_SHIFT), myMask),
                     BitAnd(Shl(p, PAGE_SHIFT), myMask), PA_READ)
     ELSE pt[p]]

Init2K ==
  /\ ConsoleIdle
  /\ variant = "2K"
  /\ \E size \in ImageSizes2K :
       /\ last = [NoCall EXCEPT !.arg = size]
       /\ mySize = SizeOf2K(size)
       /\ myMask = MaskOf2K(size)
       /\ imageSize = ClampSize(size)
  /\ myImage = [i \in {} |-> 0]
  /\ myCurrentBank = 0
  /\ myStartBank = 0
  /\ myBankChanged = FALSE
  /\ myBankLocked = FALSE
  /\ mySystem = FALSE
  /\ myHotSpotPageAccess =
       [k \in 0 .. 7 |-> PageAccess(NullDevice, NullPtr, NullPtr, PA_NONE)]
  /\ pageAccess = InitialPageAccess
  /\ fault = FALSE
  /\ pristine = TRUE

\* getImage(): size = mySize
getImageSize == mySize

\* what no operation of Cartridge2K touches
rest2K == << fixed, myCurrentBank, myStartBank, myBankLocked,
             myHotSpotPageAccess, fault, pristine >>

\* install(): System::attach() calls it once
C2K_install ==
  /\ ~mySystem
  /\ mySystem' = TRUE
  /\ pageAccess' = Pages2K(pageAccess)
  /\ last' = Call("install", -1, TRUE, -1, -100, "none")
  /\ UNCHANGED << rest2K, myImage, myBankChanged >>

C2K_reset ==
  /\ mySystem
  /\ myBankChanged' = TRUE
  /\ last' = Call("reset", -1, TRUE, -1, -100, "none")
  /\ UNCHANGED << rest2K, myImage, mySystem, pageAccess >>

\* variant: peek() reads at the unmasked offset into the window
C2K_peek_m(address) ==
  /\ mySystem
  /\ last' = Call("peek", address, TRUE, Image2KAt(BitAnd(address, 4095)),
                  -100, "none")
  /\ UNCHANGED << rest2K, myImage, myBankChanged, mySystem, pageAccess >>

\* peek(): return myImage[address & myMask]
C2K_peek(address) ==
  /\ mySystem
  /\ last' = Call("peek", address, TRUE, Image2KAt(BitAnd(address, myMask)),
                  -100, "none")
  /\ UNCHANGED << rest2K, myImage, myBankChanged, mySystem, pageAccess >>

\* variant: poke() writes the byte like patch() and reports it
C2K_poke_m(address, value) ==
  /\ mySystem
  /\ myImage' = [j \in {BitAnd(address, myMask)} |-> value]
  /\ last' = Call("poke", address, TRUE, value, -100, "none")
  /\ UNCHANGED << rest2K, myBankChanged, mySystem, pageAccess >>

\* poke(): return false
C2K_poke(address, value) ==
  /\ mySystem
  /\ last' = Call("poke", address, FALSE, value, -100, "none")
  /\ UNCHANGED << rest2K, myImage, myBankChanged, mySystem, pageAccess >>

\* variant: patch() writes at the unmasked offset into the window
C2K_patch_m(address, value) ==
  /\ \E i \in {BitAnd(address, 4095)} :
       /\ i \in DOMAIN myImage \/ Cardinality(DOMAIN myImage) < MaxPatches
       /\ myImage' = [j \in DOMAIN myImage \cup {i} |->
                        IF j = i THEN value ELSE myImage[j]]
  /\ myBankChanged' = TRUE
  /\ last' = Call("patch", address, TRUE, value, -100, "none")
  /\ UNCHANGED << rest2K, mySystem, pageAccess >>

\* patch(): myImage[address & myMask] = value; return myBankChanged = true
C2K_patch(address, value) ==
  /\ \E i \in {BitAnd(address, myMask)} :
       /\ i \in DOMAIN myImage \/ Cardinality(DOMAIN myImage) < MaxPatches
       /\ myImage' = [j \in DOMAIN myImage \cup {i} |->
                        IF j = i THEN value ELSE myImage[j]]
  /\ myBankChanged' = TRUE
  /\ last' = Call("patch", address, TRUE, value, -100, "none")
  /\ UNCHANGED << rest2K, mySystem, pageAccess >>

\* save(): thrown is the number of put calls that succeed before the
\* Serializer throws (1: none throws)
C2K_save(thrown) ==
  /\ last' = [Call("save", -1, thrown = 1, -1, -100, "none")
                EXCEPT !.stream = SubSeq(<< name2K >>, 1, thrown)]
  /\ UNCHANGED << rest2K, myImage, myBankChanged, mySystem, pageAccess >>

\* streams handed to load(): empty, foreign, and well-formed
LoadStreams2K ==
  { << >>, << name >>, << name, 1 >>, << name2K >> }

\* variant: load() takes any tag for its own
C2K_load_m(in) ==
  /\ mySystem
  /\ last' = Loading(Call("load", -1, Len(in) # 0, Len(in), -100, "none"),
                     in)
  /\ UNCHANGED << rest2K, myImage, myBankChanged, mySystem, pageAccess >>

\* load(): getString() throws at the end of the stream
C2K_load(in) ==
  /\ mySystem
  /\ last' = Loading(Call("load", -1, Len(in) # 0 /\ in[1] = name2K,
                          Len(in), -100, "none"), in)
  /\ UNCHANGED << rest2K, myImage, myBankChanged, mySystem, pageAccess >>

\* the round trip: the stream of the save() just done is loaded into a
\* new Cartridge2K made from the same image and installed into a new System
C2K_restore ==
  /\ last.op = "save" /\ last.ok
  /\ myImage' = [i \in {} |-> 0]
  /\ mySystem' = TRUE
  /\ myBankChanged' = FALSE
  /\ pageAccess' = Pages2K(InitialPageAccess)
  /\ last' = [Call("restore", -1, last.stream[1] = name2K, -1, -100, "none")
                EXCEPT !.before = << myCurrentBank, myImage >>]
  /\ UNCHANGED rest2K

Next2K ==
  \/ C2K_install
  \/ C2K_reset
  \/ \E address \in Addrs2K : C2K_peek(address)
  \/ \E address \in Addrs2K, value \in PokeVals : C2K_poke(address, value)
  \/ \E address \in PatchAddrs2K, value \in PatchVals :
       C2K_patch(address, value)
  \/ \E thrown \in 0 .. 1 : C2K_save(thrown)
  \/ \E in \in LoadStreams2K \cup {last.stream} : C2K_load(in)
  \/ C2K_restore
  \/ bankChanged

Spec2K == Init2K /\ [][Next2K]_vars

\* ---------------------------------------------------- a cartridge of
\* either class
InitAny == Init \/ Init2K

NextAny ==
  \/ variant = "SB" /\ Next
  \/ variant = "2K" /\ Next2K

SpecAny == InitAny /\ [][NextAny]_vars

\* ------------------------------------------- CartridgeSB installed again
\* install() called on a cartridge that is installed already, into the
\* same System: the same statements, run on the table the first call left
SB_reinstall ==
  /\ ~fault /\ mySystem
  /\ \E r \in {bank(myStartBank, myCurrentBank, myBankChanged,
                    HotSpotPages(pageAccess))} :
        /\ myHotSpotPageAccess' = CaptureHotSpots(pageAccess)
        /\ myCurrentBank' = r.myCurrentBank
        /\ myBankChanged' = r.myBankChanged
        /\ pageAccess' = r.pageAccess
        /\ last' = Call("install", -1, TRUE, -1, -100, "none")
  /\ UNCHANGED << fixed, myImage, myStartBank, myBankLocked, mySystem,
                  fault, pristine >>

NextInstall ==
  \/ SB_install
  \/ SB_reinstall
  \/ \E address \in Addrs : SB_peek(address)
  \/ \E address \in Addrs, value \in PokeVals : SB_poke(address, value)
  \/ bankChanged

SpecInstall == Init /\ [][NextInstall]_vars

\* -------------------------------------------- CartridgeSB, bank selection
\* images of 1..MaxSelect banks, and the hotspot addresses the CPU uses to
\* select a bank
SelectSizes == { n * 4096 : n \in 1 .. MaxSelect }
SelectAddrs == { 2048 + b : b \in 0 .. MaxSelect }

InitSelect ==
  /\ ConsoleIdle
  /\ variant = "SB"
  /\ mySize \in SelectSizes
  /\ myMask = 0
  /\ imageSize = mySize
  /\ myImage = [i \in {} |-> 0]
  /\ myCurrentBank = 0
  /\ myStartBank = StartBankOf(mySize)
  /\ myBankChanged = FALSE
  /\ myBankLocked = FALSE
  /\ mySystem = FALSE
  /\ myHotSpotPageAccess =
       [k \in 0 .. 7 |-> PageAccess(NullDevice, NullPtr, NullPtr, PA_NONE)]
  /\ pageAccess = InitialPageAccess
  /\ fault = FALSE
  /\ pristine = TRUE
  /\ last = NoCall

NextSelect ==
  \/ SB_install
  \/ \E address \in SelectAddrs : SB_peek(address)
  \/ \E address \in SelectAddrs, value \in PokeVals : SB_poke(address, value)
  \/ \E newBank \in 0 .. bankCount - 1 : SB_bank(newBank)
  \/ SB_reset
  \/ bankChanged

SpecSelect == InitSelect /\ [][NextSelect]_vars

\* ----------------------------------------------------------------- Console
\* the cartridge members while only the Console is looked at
CartIdle ==
  /\ variant = "none"
  /\ mySize = 0
  /\ myMask = 0
  /\ imageSize = 0
  /\ myImage = << >>
  /\ myCurrentBank = 0
  /\ myStartBank = 0
  /\ myBankChanged = FALSE
  /\ myBankLocked = FALSE
  /\ mySystem = FALSE
  /\ myHotSpotPageAccess = << >>
  /\ pageAccess = << >>
  /\ fault = FALSE
  /\ pristine = TRUE
  /\ last = NoCall

cartVars == << built, myImage, myCurrentBank, myStartBank, myBankChanged,
               myBankLocked, mySystem, myHotSpotPageAccess, pageAccess,
               fault, pristine, last >>

\* the formats of indices 1..6 and their ConsoleTiming
FormatOf == << "NTSC", "PAL", "SECAM", "NTSC50", "PAL60", "SECAM60" >>
TimingOf == << "ntsc", "pal", "secam", "ntsc", "pal", "secam" >>

\* the Display_Format property, the frame layout the TIA detects, and the
\* direction argument of toggleFormat
DisplayProperties == { "AUTO", "" } \cup { FormatOf[k] : k \in 1 .. 6 }
FrameLayouts == { "ntsc", "pal" }
Directions == { 1, -1, 0 }

\* constructor: the format shown, detected for AUTO or with rominfo set
ShownFormat(property, rominfo, layout) ==
  IF property = "AUTO" \/ rominfo
  THEN (IF layout = "pal" THEN "PAL" ELSE "NTSC")
  ELSE property

\* constructor: the if/else chain over myDisplayFormat; index 0 and ntsc
\* timing are the member initialisers
FormatIndexOf(display) ==
  IF \E k \in 1 .. 6 : FormatOf[k] = display
  THEN CHOOSE k \in 1 .. 6 : FormatOf[k] = display
  ELSE 0
StartTimingOf(display) ==
  IF FormatIndexOf(display) = 0 THEN "ntsc"
  ELSE TimingOf[FormatIndexOf(display)]

InitConsole ==
  /\ CartIdle
  /\ \E property \in DisplayProperties, rominfo \in BOOLEAN,
        layout \in FrameLayouts :
       /\ myDisplayFormat = ShownFormat(property, rominfo, layout)
       /\ myCurrentFormat
            = FormatIndexOf(ShownFormat(property, rominfo, layout))
       /\ myConsoleTiming
            = StartTimingOf(ShownFormat(property, rominfo, layout))
  /\ loadedFrom = [c \in Components |-> 0]
  /\ lastConsole = NoConsoleCall

\* variant: the step back from index 0 wraps to 5
NextFormat_m(index, direction) ==
  IF direction = 1 THEN (index + 1) % 7
  ELSE IF direction = -1 THEN (IF index > 0 THEN index - 1 ELSE 5)
  ELSE index

\* toggleFormat(): the new myCurrentFormat
NextFormat(index, direction) ==
  IF direction = 1 THEN (index + 1) % 7
  ELSE IF direction = -1 THEN (IF index > 0 THEN index - 1 ELSE 6)
  ELSE index

\* toggleFormat(): the switch over myCurrentFormat
SwitchFormat(index, layout) ==
  IF index = 0
  THEN [display |-> IF layout = "pal" THEN "PAL" ELSE "NTSC",
        timing  |-> IF layout = "pal" THEN "pal" ELSE "ntsc"]
  ELSE IF index \in 1 .. 6
  THEN [display |-> FormatOf[index], timing |-> TimingOf[index]]
  ELSE [display |-> myDisplayFormat, timing |-> myConsoleTiming]

\* the record of a toggleFormat call: its direction and the index it
\* started from, the same of the call before it, and the length and
\* starting index of the run of toggleFormat(1) calls it ends
ToggleCall(direction) ==
  [op |-> "toggleFormat", arg |-> direction, ok |-> TRUE, failed |-> "none",
   from |-> myCurrentFormat,
   prevDir |-> IF lastConsole.op = "toggleFormat" THEN lastConsole.arg ELSE 0,
   prevFrom |-> IF lastConsole.op = "toggleFormat" THEN lastConsole.from
                ELSE 0,
   run |-> IF direction # 1 THEN 0
           ELSE IF lastConsole.run \in 1 .. 6 THEN lastConsole.run + 1
           ELSE 1,
   runFrom |-> IF direction # 1 THEN 0
               ELSE IF lastConsole.run \in 1 .. 6 THEN lastConsole.runFrom
               ELSE myCurrentFormat]

toggleFormat(direction, layout) ==
  /\ myCurrentFormat' = NextFormat(myCurrentFormat, direction)
  /\ myDisplayFormat'
       = SwitchFormat(NextFormat(myCurrentFormat, direction), layout).display
  /\ myConsoleTiming'
       = SwitchFormat(NextFormat(myCurrentFormat, direction), layout).timing
  /\ lastConsole' = ToggleCall(direction)
  /\ UNCHANGED << cartVars, loadedFrom >>

\* the order in which save() and load() go through the components
ComponentOrder == << "system", "left", "right", "switches" >>
StreamIds == { 1 }
FailureKinds == { "false", "throw" }

\* a save()/load() call: failAt is the component (0: none) whose save/load
\* returns false or throws
StateCall(op, stream, failAt) ==
  [NoConsoleCall EXCEPT !.op = op, !.arg = stream, !.ok = (failAt = 0),
                        !.failed = IF failAt = 0 THEN "none"
                                   ELSE ComponentOrder[failAt]]

\* save(): every component up to the failing one writes its state
Console_save(failAt, how) ==
  /\ lastConsole' = StateCall("save", 0, failAt)
  /\ UNCHANGED << cartVars, myCurrentFormat, myDisplayFormat,
                  myConsoleTiming, loadedFrom >>

\* load(): every component before the failing one has taken its state
\* from the stream
Console_load(in, failAt, how) ==
  /\ loadedFrom' =
       [c \in Components |->
          IF failAt = 0 \/ \E k \in 1 .. failAt - 1 : ComponentOrder[k] = c
          THEN in ELSE loadedFrom[c]]
  /\ lastConsole' = StateCall("load", in, failAt)
  /\ UNCHANGED << cartVars, myCurrentFormat, myDisplayFormat,
                  myConsoleTiming >>

NextConsole ==
  \/ \E direction \in Directions, layout \in FrameLayouts :
       toggleFormat(direction, layout)
  \/ \E failAt \in 0 .. 4, how \in FailureKinds : Console_save(failAt, how)
  \/ \E in \in StreamIds, failAt \in 0 .. 4, how \in FailureKinds :
       Console_load(in, failAt, how)

SpecConsole == InitConsole /\ [][NextConsole]_vars

\* ------------------------------------------------------------ properties
HotSpotRange == 2048 .. 4095       \* 0x0800-0x0FFF
CartWindow   == 4096 .. 8191       \* 0x1000-0x1FFF
BusSpace     == 0 .. 8191          \* 0x0000-0x1FFF
PagesOfWindow == { p \in Pages : p * 64 \in CartWindow }
OffsetInBank  == [a \in CartWindow |-> BitAnd(a, 4095)]

\* C1: after a peek or poke at an address of 0x0800-0x0FFF on a cartridge
\* that is not bank-locked, getBank() is address & (bankCount-1)
C1_HotSpotSelectsBank ==
  (last.op \in {"peek", "poke"} /\ last.arg \in HotSpotRange /\ ~myBankLocked)
    => getBank = BitAnd(last.arg, bankCount - 1)

C1_Witness ==
  /\ last.op = "poke" /\ last.arg = 2048 /\ ~myBankLocked /\ ~fault
  /\ bankCount = 2 /\ getBank = 0 /\ last.dev = TIA

\* C2: a peek or poke at a bus address outside 0x0800-0x0FFF leaves
\* getBank() as it was
C2_OtherAddressKeepsBank ==
  [][(last'.op \in {"peek", "poke"} /\ last'.arg \in BusSpace \ HotSpotRange)
       => myCurrentBank' = myCurrentBank]_vars

C2_Witness ==
  /\ last.op = "peek" /\ last.arg = 8191 /\ ~myBankLocked
  /\ bankCount = 2 /\ getBank = 0

\* C3: an installed cartridge that has seen no hotspot access, bank(),
\* reset() or load() has its top bank active
C3_StartsInTopBank ==
  (mySystem /\ pristine) => getBank = bankCount - 1

C3_Witness ==
  /\ mySystem /\ pristine /\ last.op = "install"
  /\ bankCount = 2 /\ getBank = 1

\* C4 as stated: after reset() the top bank is active, whatever the state
C4_ResetAlwaysRestores ==
  last.op = "reset" => getBank = bankCount - 1

\* C4 amended: reset() makes the top bank active unless the cartridge is
\* bank-locked, in which case it leaves the active bank as it was
C4_ResetRestoresUnlessLocked ==
  [][last'.op = "reset"
       => IF myBankLocked THEN myCurrentBank' = myCurrentBank
                          ELSE myCurrentBank' = bankCount - 1]_vars

C4_Witness ==
  /\ last.op = "reset" /\ last.ok /\ ~myBankLocked
  /\ bankCount = 2 /\ getBank = 1

\* C5: bank(newBank) on a locked cartridge returns false and changes
\* neither bank, descriptors nor flag; otherwise it returns true, makes
\* newBank active, sets the flag and publishes for every page of
\* 0x1000-0x1FFF a read descriptor at newBank*4096 + (address & 0x0FFF)
C5_BankContract ==
  [][last'.op = "bank"
       => IF myBankLocked
          THEN /\ ~last'.ok
               /\ UNCHANGED << myCurrentBank, pageAccess, myBankChanged >>
          ELSE /\ last'.ok
               /\ myCurrentBank' = last'.arg
               /\ myBankChanged'
               /\ \A p \in PagesOfWindow :
                    /\ device(pageAccess'[p]) = this
                    /\ accessType(pageAccess'[p]) = PA_READ
                    /\ directPeekBase(pageAccess'[p])
                         = last'.arg * 4096 + OffsetInBank[p * 64]]_vars

C5_Witness ==
  /\ last.op = "bank" /\ last.ok /\ last.arg = 0 /\ ~myBankLocked
  /\ getBank = 0 /\ myBankChanged /\ directPeekBase(pageAccess[65]) = 64

\* C6: between two states in which the cartridge is bank-locked neither
\* getBank() nor a descriptor of 0x1000-0x1FFF changes
C6_LockedIsFrozen ==
  [][(myBankLocked /\ myBankLocked')
       => /\ myCurrentBank' = myCurrentBank
          /\ \A p \in PagesOfWindow : pageAccess'[p] = pageAccess[p]]_vars

\* C7: the active bank of an installed cartridge is a bank of the image
C7_BankInRange ==
  mySystem => (0 <= getBank /\ getBank < bankCount)

\* C8: every descriptor of 0x1000-0x1FFF points into the active bank
C8_PagesReflectBank ==
  mySystem =>
    \A p \in PagesOfWindow :
      directPeekBase(pageAccess[p]) = getBank * 4096 + OffsetInBank[p * 64]

\* C9: peek of an address of 0x1000-0x1FFF returns the byte of the active
\* bank at that offset
C9_PeekReturnsBankByte ==
  (last.op = "peek" /\ last.arg \in CartWindow /\ getBank < bankCount)
    => last.val = ImageAt(getBank * 4096 + OffsetInBank[last.arg])

\* C10: peek(A) returns the value patched at A in the active bank, also
\* after the bank was switched away and back
C10_PeekReturnsPatch ==
  (/\ last.op = "peek" /\ last.arg \in CartWindow
   /\ getBank * 4096 + OffsetInBank[last.arg] \in DOMAIN myImage)
    => last.val = myImage[getBank * 4096 + OffsetInBank[last.arg]]

\* C11: patch(A, V) writes V to the one byte of the store at
\* getBank()*4096 + (A & 0x0FFF), leaves every other byte, the active bank
\* and the descriptors as they were, sets the flag and returns true
C11_PatchWritesOneByte ==
  [][last'.op = "patch"
       => \E i \in {getBank * 4096 + BitAnd(last'.arg, 4095)} :
            /\ i < mySize /\ ~fault'
            /\ DOMAIN myImage' = DOMAIN myImage \cup {i}
            /\ myImage'[i] = last'.val
            /\ \A j \in DOMAIN myImage \ {i} : myImage'[j] = myImage[j]
            /\ UNCHANGED << myCurrentBank, pageAccess >>
            /\ myBankChanged' /\ last'.ok]_vars

\* C12: a peek at an address of 0x0800-0x0FFF is forwarded, after the bank
\* switch has been done, to the device of a descriptor captured by
\* install(), and returns the byte that device answered
C12_HotSpotPeekForwards ==
  (last.op = "peek" /\ last.arg \in HotSpotRange)
    => /\ ~fault /\ last.ok
       /\ last.hotspot \in 0 .. 7
       /\ last.dev = device(myHotSpotPageAccess[last.hotspot])
       /\ last.dev \in {TIA, M6532}
       /\ Len(last.fwd) = 1
       /\ last.fwdbank = getBank
       /\ ~myBankLocked => getBank = BitAnd(last.arg, bankCount - 1)
       /\ last.val = last.devval

C12_Witness ==
  /\ last.op = "peek" /\ last.arg = 2048 /\ ~myBankLocked /\ bankCount = 2
  /\ getBank = 0 /\ last.fwdbank = 0 /\ last.dev = TIA /\ last.val = 90

\* C13: poke(A, V) returns false and leaves the store alone; at an address
\* of 0x0800-0x0FFF it switches the bank and hands poke(A, V) to the device
\* of a captured descriptor; at any other bus address it changes neither
\* bank, descriptors nor flag
C13_PokeForwardsOrNoOp ==
  [][last'.op = "poke"
       => /\ ~last'.ok
          /\ myImage' = myImage
          /\ IF last'.arg \in HotSpotRange
             THEN /\ ~myBankLocked
                       => myCurrentBank' = BitAnd(last'.arg, bankCount - 1)
                  /\ last'.hotspot \in 0 .. 7
                  /\ last'.dev = device(myHotSpotPageAccess[last'.hotspot])
                  /\ last'.fwd = << last'.arg, last'.val >>
             ELSE last'.arg \in BusSpace
                    => UNCHANGED << myCurrentBank, pageAccess,
                                    myBankChanged >>]_vars

\* what peek(address) of the window answers from a store with the patches
\* img, and byte i of the present store, for either class
WindowPeek(img, address) ==
  IF variant = "2K" THEN Byte2K(img, BitAnd(address, myMask))
  ELSE PeekFallback(MaskAddress(address))
StoreByte(i) == IF variant = "2K" THEN Image2KAt(i) ELSE ImageAt(i)

\* C14: save() followed by load() into a new installed cartridge of the
\* same class and image returns true, restores getBank() and makes peek
\* answer every address of the window as the saved cartridge did
C14_RoundTrip ==
  last.op = "restore"
    => /\ last.ok
       /\ getBank = last.before[1]
       /\ \A a \in CartWindow :
            WindowPeek(myImage, a) = WindowPeek(last.before[2], a)

\* C15: the bytes patch() changed before save() are in the store again
\* after load() into a cartridge made from the original image
C15_PatchesPersist ==
  last.op = "restore"
    => \A i \in DOMAIN last.before[2] : StoreByte(i) = last.before[2][i]

\* the identity tag of the cartridge, and the number of items its save()
\* writes
OwnName == IF variant = "2K" THEN name2K ELSE name
SavedItems == IF variant = "2K" THEN 1 ELSE 2

\* C16: load() of a stream whose tag is not the cartridge's own returns
\* false and leaves bank, descriptors, store and flag as they were
C16_ForeignTagRejected ==
  [][(/\ last'.op = "load" /\ Len(last'.stream) >= 1
      /\ last'.stream[1] # OwnName)
       => /\ ~last'.ok /\ ~fault'
          /\ UNCHANGED << myCurrentBank, pageAccess, myImage,
                          myBankChanged >>]_vars

C16_Witness ==
  /\ last.op = "load" /\ last.stream = << name2K, 1 >> /\ variant = "SB"
  /\ ~last.ok /\ bankCount = 2 /\ getBank = 0 /\ ~myBankLocked

\* C17: save() cut short by a stream error returns false; load() of a
\* stream that ends early (also right after a matching tag) returns false;
\* either call returns to its caller, and a load() that returned false has
\* left bank and descriptors as they were
C17_StreamErrorIsFalse ==
  [][/\ (last'.op = "save" /\ Len(last'.stream) < SavedItems)
          => ~last'.ok /\ ~fault' /\ UNCHANGED << myCurrentBank, pageAccess >>
     /\ (last'.op = "load" /\ Len(last'.stream) < SavedItems)
          => ~last'.ok /\ ~fault'
     /\ (last'.op = "load" /\ ~last'.ok)
          => UNCHANGED << myCurrentBank, pageAccess >>]_vars

C17_Witness ==
  /\ last.op = "load" /\ last.stream = << name >> /\ variant = "SB"
  /\ ~last.ok /\ ~fault /\ bankCount = 2 /\ getBank = 1

\* the operations of a cartridge
CartridgeOps ==
  { "peek", "poke", "bank", "patch", "reset", "install", "save", "load" }

\* C18: no operation of the cartridge clears the Bank-Changed flag, and the
\* flag is set after patch(), after a bank() or reset() that succeeded,
\* after a hotspot access of an unlocked cartridge, and whenever an
\* operation has made another bank the active one
C18_FlagIsStickyLatch ==
  [][last'.op \in CartridgeOps
       => /\ myBankChanged => myBankChanged'
          /\ last'.op = "patch" => myBankChanged'
          /\ (last'.op \in {"bank", "reset"} /\ last'.ok) => myBankChanged'
          /\ (/\ variant = "SB" /\ last'.op \in {"peek", "poke"}
              /\ last'.arg \in HotSpotRange /\ ~myBankLocked)
               => myBankChanged'
          /\ myCurrentBank' # myCurrentBank => myBankChanged']_vars

\* C19: peek(A) of a Cartridge2K returns the store byte at A & (size-1) and
\* changes nothing; two peeks at addresses a multiple of size apart return
\* the same byte, and on an unpatched 2048-byte image peek(0x1000) and
\* peek(0x1800) return image[0]
C19_PeekReadsMaskedByte ==
  [][last'.op = "peek"
       => /\ last'.val = Image2KAt(BitAnd(last'.arg, mySize - 1))
          /\ UNCHANGED << fixed, myImage, myCurrentBank, myBankChanged,
                          mySystem, pageAccess >>
          /\ (last.op = "peek" /\ (last'.arg - last.arg) % mySize = 0)
               => last'.val = last.val
          /\ (/\ imageSize = 2048 /\ 0 \notin DOMAIN myImage
              /\ last'.arg \in {4096, 4096 + 2048})
               => last'.val = image(0)]_vars

C19_Witness ==
  /\ last.op = "peek" /\ last.arg = 4096 + 2048 /\ mySize = 2048
  /\ imageSize = 2048 /\ myImage = << >> /\ last.val = image(0)

\* C20: poke(A, V) of a Cartridge2K returns false and leaves the answer of
\* peek at every address, the flag and the descriptors as they were
C20_PokeIsNoOp ==
  [][last'.op = "poke"
       => /\ ~last'.ok
          /\ \A a \in CartWindow :
               WindowPeek(myImage', a) = WindowPeek(myImage, a)
          /\ UNCHANGED << myBankChanged, pageAccess >>]_vars

C20_Witness ==
  /\ last.op = "poke" /\ last.arg = 4096 /\ last.val = 171 /\ ~last.ok
  /\ mySystem /\ mySize = 2048 /\ myBankChanged /\ myImage = << >>

\* C21: patch(A, V) of a Cartridge2K returns true and sets the flag;
\* afterwards peek answers V at A and at every address aliasing A, and
\* what it answered before at every other address
C21_PatchThenPeek ==
  [][last'.op = "patch"
       => /\ last'.ok /\ myBankChanged'
          /\ \A a \in CartWindow :
               WindowPeek(myImage', a)
                 = IF BitAnd(a, mySize - 1) = BitAnd(last'.arg, mySize - 1)
                   THEN last'.val ELSE WindowPeek(myImage, a)]_vars

C21_Witness ==
  /\ last.op = "patch" /\ last.arg = 6145 /\ last.val = 171 /\ last.ok
  /\ mySize = 2048 /\ myBankChanged /\ DOMAIN myImage = {1}
  /\ Image2KAt(1) = 171

\* C22: Console::load returns true only if system, both controllers and
\* switches all loaded, and when it returns false no component holds
\* state it took from the stream during the call
C22_LoadAllOrNothing ==
  [][lastConsole'.op = "load"
       => /\ lastConsole'.ok
               => /\ lastConsole'.failed = "none"
                  /\ \A c \in Components : loadedFrom'[c] = lastConsole'.arg
          /\ ~lastConsole'.ok => loadedFrom' = loadedFrom]_vars

HotSpotPagesOf == { p \in Pages : p * 64 \in HotSpotRange }

\* C23: install() captures the descriptors the bus held for 0x0800,
\* 0x0900, ... 0x0F00 before it takes the hotspot pages; afterwards every
\* page of 0x0800-0x0FFF is the cartridge's, readable and without direct
\* pointer, the startup bank is active and its pages are published
C23_InstallOrder ==
  [][last'.op = "install"
       => /\ \A k \in 0 .. 7 :
               myHotSpotPageAccess'[k] = pageAccess[(2048 + 256 * k) \div 64]
          /\ \A p \in HotSpotPagesOf :
               pageAccess'[p] = PageAccess(this, NullPtr, NullPtr, PA_READ)
          /\ myCurrentBank' = bankCount - 1
          /\ \A p \in PagesOfWindow :
               /\ device(pageAccess'[p]) = this
               /\ directPeekBase(pageAccess'[p])
                    = (bankCount - 1) * 4096 + OffsetInBank[p * 64]
          /\ \A p \in Pages \ (HotSpotPagesOf \cup PagesOfWindow) :
               pageAccess'[p] = pageAccess[p]]_vars

C23_Witness ==
  /\ last.op = "install" /\ bankCount = 2 /\ getBank = 1
  /\ device(myHotSpotPageAccess[7]) = TIA
  /\ accessType(myHotSpotPageAccess[7]) = PA_READWRITE
  /\ pageAccess[63] = PageAccess(this, NullPtr, NullPtr, PA_READ)
  /\ directPeekBase(pageAccess[64]) = 4096

\* C24: whenever peek or poke forwards, the descriptor index is one of
\* 0..7, and for an address of 0x0800-0x0FFF it is the number of the
\* 256-byte sub-page the address lies in
C24_HotSpotIndexIsSubPage ==
  (last.op \in {"peek", "poke"} /\ last.hotspot # -100)
    => /\ last.hotspot \in 0 .. 7
       /\ last.arg \in HotSpotRange
            => last.hotspot = (last.arg - 2048) \div 256

\* C25: peek, poke and patch return normally at every address, the
\* descriptor index of a forwarded access lies in 0..7, and the store
\* index patch() writes lies inside the store
C25_NoAddressIsAnError ==
  [][last'.op \in {"peek", "poke", "patch"}
       => /\ ~fault'
          /\ last'.hotspot = -100 \/ last'.hotspot \in 0 .. 7
          /\ (last'.op = "patch" /\ variant = "SB")
               => PatchIndex(last'.arg) \in 0 .. mySize - 1
          /\ (last'.op = "patch" /\ variant = "2K")
               => BitAnd(last'.arg, myMask) \in 0 .. mySize - 1]_vars

Min(a, b) == IF a < b THEN a ELSE b
PowersOfTwo == { 2 ^ k : k \in 0 .. 11 }

\* C26: a Cartridge2K made from s bytes (the argument kept in the record
\* of the state after construction) has a store of S bytes, S the
\* smallest power of two with S >= min(s, 2048) and S >= 64; getImage()
\* reports S; the first min(s, 2048) bytes are the image, the others 0x02;
\* S and the mask S-1 never change
C26_Construction ==
  [][/\ (last.op = "none" /\ lastConsole.op = "none")
          => /\ imageSize = Min(last.arg, 2048)
             /\ mySize \in PowersOfTwo /\ 64 <= mySize /\ mySize <= 2048
             /\ mySize >= imageSize
             /\ mySize = 64 \/ mySize \div 2 < imageSize
             /\ getImageSize = mySize /\ myMask = mySize - 1
             /\ \A i \in 0 .. mySize - 1 :
                  Image2KAt(i) = IF i < imageSize THEN image(i) ELSE 2
     /\ mySize' = mySize /\ myMask' = myMask]_vars

C26_Witness ==
  /\ last.op = "none" /\ last.arg = 100 /\ imageSize = 100
  /\ mySize = 128 /\ myMask = 127
  /\ Image2KAt(99) = image(99) /\ Image2KAt(100) = 2

\* System::peek through a descriptor with a direct pointer: the byte at
\* directPeekBase + (address & PAGE_MASK)
DirectPeek(pt, address) ==
  Image2KAt(directPeekBase(pt[Shr(address, PAGE_SHIFT)]) + (address % 64))

\* C27: install() of a Cartridge2K gives every page of 0x1000-0x1FFF a
\* read descriptor of the cartridge pointing at store index
\* pageAddress & (size-1), so that a read through the descriptor answers
\* as peek does, and leaves every other page as it was
C27_InstallPublishesStore ==
  [][(last'.op = "install" /\ variant = "2K")
       => /\ \A p \in PagesOfWindow :
               pageAccess'[p]
                 = PageAccess(this2K, BitAnd(p * 64, mySize - 1),
                              BitAnd(p * 64, mySize - 1), PA_READ)
          /\ \A a \in CartWindow :
               /\ directPeekBase(pageAccess'[a \div 64]) + (a % 64) < mySize
               /\ DirectPeek(pageAccess', a) = WindowPeek(myImage, a)
          /\ \A p \in Pages \ PagesOfWindow :
               pageAccess'[p] = pageAccess[p]]_vars

C27_Witness ==
  /\ last.op = "install" /\ variant = "2K" /\ mySize = 128
  /\ directPeekBase(pageAccess[64]) = 0
  /\ directPeekBase(pageAccess[65]) = 64
  /\ directPeekBase(pageAccess[66]) = 0
  /\ pageAccess[63] = InitialPageAccess[63]

\* the banks a peek or poke at an address of 0x0800-0x0FFF selects
SelectableBanks ==
  { HotSpotBank(MaskAddress(a)) :
      a \in { h \in HotSpotRange : IsSwitch(MaskAddress(h)) } }

C29_NeverForwardsToItself ==
  /\ mySystem => \A k \in 0 .. 7 : device(myHotSpotPageAccess[k]) # this
  /\ last.op \in {"peek", "poke"} => last.dev # this

\* C30: myCurrentFormat stays in 0..6; a toggleFormat(1) undone by
\* toggleFormat(-1), or the other way round, ends at the index it started
\* from; seven toggleFormat(1) in a row end where they started; and after
\* a call that ends at index 1..6 display format and timing are those of
\* the index
C30_ToggleFormat ==
  /\ myCurrentFormat \in 0 .. 6
  /\ lastConsole.op = "toggleFormat"
       => /\ (lastConsole.arg # 0 /\ lastConsole.prevDir = -lastConsole.arg)
               => myCurrentFormat = lastConsole.prevFrom
          /\ lastConsole.run = 7 => myCurrentFormat = lastConsole.runFrom
          /\ myCurrentFormat \in 1 .. 6
               => /\ myDisplayFormat = FormatOf[myCurrentFormat]
                  /\ myConsoleTiming = TimingOf[myCurrentFormat]
          /\ myCurrentFormat = 1
               => myDisplayFormat = "NTSC" /\ myConsoleTiming = "ntsc"
          /\ myCurrentFormat = 2
               => myDisplayFormat = "PAL" /\ myConsoleTiming = "pal"
          /\ myCurrentFormat = 3
               => myDisplayFormat = "SECAM" /\ myConsoleTiming = "secam"
          /\ myCurrentFormat = 4
               => myDisplayFormat = "NTSC50" /\ myConsoleTiming = "ntsc"
          /\ myCurrentFormat = 5
               => myDisplayFormat = "PAL60" /\ myConsoleTiming = "pal"
          /\ myCurrentFormat = 6
               => myDisplayFormat = "SECAM60" /\ myConsoleTiming = "secam"

C30_Witness ==
  /\ lastConsole.op = "toggleFormat" /\ lastConsole.arg = 1
  /\ lastConsole.run = 7 /\ lastConsole.runFrom = 5 /\ myCurrentFormat = 5
  /\ myDisplayFormat = "PAL60" /\ myConsoleTiming = "pal"

C30_WitnessBack ==
  /\ lastConsole.op = "toggleFormat" /\ lastConsole.arg = 1
  /\ lastConsole.prevDir = -1 /\ lastConsole.prevFrom = 0
  /\ lastConsole.from = 6 /\ myCurrentFormat = 0
====
